---- MODULE Spec2Model ----
(***************************************************************************)
(* A model of SQLiteIndex (src/sqlx-sqlite/src/index.rs): the statistics   *)
(* index of a set of parquet files kept in two SQLite tables.              *)
(*                                                                         *)
(*   add_file   reads a file's footer, extracts per row-group statistics   *)
(*              and hands them to add_row;                                 *)
(*   add_row    initialize(), then one transaction: upsert the             *)
(*              file_statistics row, delete the file's row-group rows,     *)
(*              insert the new ones, commit;                               *)
(*   get_files  rewrites a filter to a pruning predicate, runs it as one   *)
(*              SELECT and assembles a per-file access plan.               *)
(*                                                                         *)
(* Names of columns are sequences of their "_"-separated tokens, so that   *)
(* "a_row_count" is <<"a","row","count">> and the suffix tests and the     *)
(* format!("{}_min", ..) concatenations of the code are computed, not      *)
(* assumed.                                                                *)
(*                                                                         *)
(* Three specifications:                                                   *)
(*   Spec            one add_file in flight, step by step, and get_files;  *)
(*   SpecTwoWriters  two indexes on one pool, each with an add_file in     *)
(*                   flight;                                               *)
(*   SpecAlone       add_file calls one after another, each one step, with *)
(*                   the history of the ingested paths.                    *)
(***************************************************************************)
EXTENDS Integers, Sequences, FiniteSets, TLC

VARIABLES
    schema,                 \* SQLiteIndex.schema: the fields of the index
    tables,                 \* the tables that exist in the database
    file_statistics,        \* committed rows of table file_statistics
    row_group_statistics,   \* committed rows of table row_group_statistics
    sqlite_sequence,        \* AUTOINCREMENT counter of file_statistics.file_id
    tx,                     \* the add_row call in flight and its transaction
    waiting,                \* a second add_row call, begun, that has not written yet
    ingested,               \* history kept by AddFileAlone: the paths it has ingested
    ret                     \* what the last finished call returned

vars == <<schema, tables, file_statistics, row_group_statistics, sqlite_sequence, tx, waiting, ingested, ret>>

----------------------------------------------------------------------------
(* Bounds of the model *)

\* most row groups in a file
MaxRowGroups == 2
\* literals of the filters are 0..MaxVal
MaxVal == 1

----------------------------------------------------------------------------
(* Inputs *)

Field(name, type) == [name |-> name, data_type |-> type]

\* The schema of the table the files hold; get_files is given this schema.
\* "c" is a column of the table that the index does not cover.
TableSchema == << Field(<<"a">>, "Int64"), Field(<<"f">>, "Float64"), Field(<<"c">>, "Int64") >>

\* The index schemas SQLiteIndex::new is given ("Not all columns in the table
\* need to be indexed").
IndexSchemas ==
    { << Field(<<"a">>, "Int64") >>,
      << Field(<<"a">>, "Int64"), Field(<<"f">>, "Float64") >>,
      << Field(<<"a">>, "Int64"), Field(<<"g">>, "Boolean") >>,
      << Field(<<"a">>, "Int64"), Field(<<"u">>, "UInt64") >> }

\* Paths of the files to add: sequences of path components.
FilePaths == { <<"d1", "x.parquet">>, <<"d2", "x.parquet">>, <<"d1", "y.parquet">> }

\* file.metadata().len()
FileSizes == { 10, 20 }

\* The (row_count, null_count, min, max) of one row group; every column of
\* the row group has the same four values.  has_statistics tells whether the
\* writer recorded null_count, min and max in the footer (num_rows is a
\* required field of a row group and is always there).
StatChoices ==
    << [row_count |-> 2, null_count |-> 0, min |-> 0, max |-> 1, has_statistics |-> TRUE],
       [row_count |-> 2, null_count |-> 1, min |-> 1, max |-> 1, has_statistics |-> TRUE] >>

\* A footer: the file's size and its row groups in order.  The row groups of
\* every file take the StatChoices in turn.  One more footer is of a file
\* written without statistics: a single row group, the first of StatChoices.
Footers ==
    { [file_size |-> s,
       row_groups |-> [i \in 1..n |-> StatChoices[((i - 1) % Len(StatChoices)) + 1]]] :
         s \in FileSizes, n \in 0..MaxRowGroups }
    \cup { [file_size |-> 10,
            row_groups |-> << [StatChoices[1] EXCEPT !.has_statistics = FALSE] >>] }

\* The footers of the files the second of two indexes on one pool adds
SecondFooters == { f \in Footers : f.file_size = 20 }

\* The filters of get_files: each is over one column of the table.
Filters ==
    { [kind |-> "true", col |-> <<"a">>, val |-> 0] }
    \cup [kind : {"eq"}, col : {<<"a">>}, val : 0..MaxVal]
    \cup [kind : {"is_null"}, col : {<<"a">>, <<"c">>}, val : {0}]

----------------------------------------------------------------------------
(* Column names *)

\* format!("{}_{}", a, b) on token sequences
Concat(a, b) == a \o b

COL_FILE_ID == <<"file", "id">>
COL_ROW_GROUP == <<"row", "group">>
COL_ROW_COUNT == <<"row", "count">>
SUFFIX_NULL_COUNT == <<"null", "count">>
SUFFIX_MIN == <<"min">>
SUFFIX_MAX == <<"max">>
SUFFIX_ROW_COUNT == <<"row", "count">>

Range(s) == { s[i] : i \in 1..Len(s) }

----------------------------------------------------------------------------
(* add_file: extraction of the statistics *)

\* The arms of the match on field.data_type() in add_file; every other type
\* falls to `_ => {}` and pushes nothing.
ExtractedTypes ==
    { "Int8", "UInt8", "Int16", "UInt16", "Int32", "UInt32", "Int64", "Utf8", "LargeUtf8" }

\* MinMaxStats::Int or MinMaxStats::String, by the arm taken
MinMaxStats(type, min, max) ==
    IF type \in {"Utf8", "LargeUtf8"} THEN <<"String", min, max>> ELSE <<"Int", min, max>>

\* The whole path as the name of the file
FileNameWithDirectory(path) == path

\* file.file_name(): the last component of the path
FileNameOf(path) == path[Len(path)]

\* A slot of the arrays StatisticsConverter returns: null where the footer
\* has no statistics for the row group
Null == <<"null">>
Some(v) == <<"some", v>>

\* converter.row_group_null_counts / row_group_mins / row_group_maxes at one row group
RowGroupNullCount(rg) == IF rg.has_statistics THEN Some(rg.null_count) ELSE Null
RowGroupMin(rg) == IF rg.has_statistics THEN Some(rg.min) ELSE Null
RowGroupMax(rg) == IF rg.has_statistics THEN Some(rg.max) ELSE Null

\* array.value(i): it does not look at the validity bitmap; for a null slot
\* it returns what the array's buffer holds there, which the array builders
\* fill with the default of the type (0, or the empty string).
ArrayValue(type, slot) ==
    IF slot = Null THEN (IF type \in {"Utf8", "LargeUtf8"} THEN "" ELSE 0) ELSE slot[2]

\* RowGroupStatisticsInsert of row group i (1-based position, row_group i - 1):
\* one ColumnStatistics per schema field whose type has an arm, in schema order.
\* The `as i64` of the arms is from a type whose every value is an i64 (the
\* widest is u32), so it keeps the value; there is no arm for UInt64.
ExtractRowGroup(sch, footer, i) ==
    LET rg == footer.row_groups[i]
        extracted == SelectSeq(sch, LAMBDA fld : fld.data_type \in ExtractedTypes)
    IN  [row_group |-> i - 1,
         row_count |-> rg.row_count,
         column_statistics |->
            [j \in 1..Len(extracted) |->
                [null_count |-> ArrayValue("UInt64", RowGroupNullCount(rg)),
                 stats |-> MinMaxStats(extracted[j].data_type,
                                       ArrayValue(extracted[j].data_type, RowGroupMin(rg)),
                                       ArrayValue(extracted[j].data_type, RowGroupMax(rg)))]]]

\* ExtractRowGroups that stops one row group short
ExtractRowGroupsButLast(sch, footer) ==
    [i \in 1..(Len(footer.row_groups) - 1) |-> ExtractRowGroup(sch, footer, i)]

ExtractRowGroups(sch, footer) ==
    [i \in 1..Len(footer.row_groups) |-> ExtractRowGroup(sch, footer, i)]

RECURSIVE SumRowCounts(_)
SumRowCounts(rgs) == IF rgs = <<>> THEN 0 ELSE Head(rgs).row_count + SumRowCounts(Tail(rgs))

\* FileStatisticsInsert built at the end of add_file
FileStatisticsInsert(path, footer) ==
    [file_name |-> FileNameOf(path),
     file_size_bytes |-> footer.file_size,
     row_group_count |-> Len(footer.row_groups),
     row_count |-> SumRowCounts(footer.row_groups)]

----------------------------------------------------------------------------
(* initialize: the tables *)

\* set_column_type: the SQL type of a _min/_max column, "todo!" where the
\* match ends in todo!() and panics.
SetColumnType(type) ==
    CASE type = "Int8" -> "tiny_integer"
      [] type = "UInt8" -> "tiny_unsigned"
      [] type = "Int16" -> "small_integer"
      [] type = "UInt16" -> "small_unsigned"
      [] type = "Int32" -> "integer"
      [] type = "UInt32" -> "unsigned"
      [] type = "Int64" -> "big_integer"
      [] type = "UInt64" -> "big_unsigned"
      [] type = "Float32" -> "float"
      [] type = "Float64" -> "double"
      [] type \in {"Utf8", "LargeUtf8"} -> "string"
      [] type \in {"Binary", "FixedSizeBinary", "LargeBinary"} -> "binary"
      [] OTHER -> "todo!"

\* initialize panics while it builds the row_group_statistics table
InitializePanics(sch) == \E i \in 1..Len(sch) : SetColumnType(sch[i].data_type) = "todo!"

\* The three columns initialize gives the table for one field
FieldColumns(fld) ==
    << Concat(fld.name, SUFFIX_NULL_COUNT), Concat(fld.name, SUFFIX_MIN), Concat(fld.name, SUFFIX_MAX) >>

RECURSIVE AllFieldColumns(_)
\* The columns of the fields of a schema, in the order of the fields
AllFieldColumns(sch) ==
    IF sch = <<>> THEN <<>> ELSE FieldColumns(Head(sch)) \o AllFieldColumns(Tail(sch))

\* The columns of CREATE TABLE row_group_statistics
TableColumns(sch) == {COL_FILE_ID, COL_ROW_GROUP, COL_ROW_COUNT} \cup Range(AllFieldColumns(sch))

----------------------------------------------------------------------------
(* add_row: the three statements, as functions of a database                *)
(* [file_statistics, row_group_statistics, sqlite_sequence]                 *)

\* UpsertFile as INSERT OR REPLACE would do it: the row of the name is
\* replaced by a new row with a new file_id
UpsertFileReplace(D, fs) ==
    LET id == D.sqlite_sequence + 1
        new == [file_id |-> id,
                file_name |-> fs.file_name,
                file_size_bytes |-> fs.file_size_bytes,
                row_group_count |-> fs.row_group_count,
                row_count |-> fs.row_count]
    IN  [db |-> [D EXCEPT !.file_statistics =
                            { r \in @ : r.file_name # fs.file_name } \cup {new},
                          !.sqlite_sequence = id],
         file_id |-> id]

\* UpsertFile with row_group_count left out of update_columns
UpsertFileKeepsCount(D, fs) ==
    IF \E r \in D.file_statistics : r.file_name = fs.file_name
    THEN LET old == CHOOSE r \in D.file_statistics : r.file_name = fs.file_name
             new == [old EXCEPT !.file_size_bytes = fs.file_size_bytes,
                                !.row_count = fs.row_count]
         IN  [db |-> [D EXCEPT !.file_statistics = (@ \ {old}) \cup {new}],
              file_id |-> old.file_id]
    ELSE UpsertFileReplace(D, fs)

\* INSERT INTO file_statistics .. ON CONFLICT (file_name) DO UPDATE SET
\* file_size_bytes, row_group_count, row_count .. RETURNING file_id
UpsertFile(D, fs) ==
    IF \E r \in D.file_statistics : r.file_name = fs.file_name
    THEN LET old == CHOOSE r \in D.file_statistics : r.file_name = fs.file_name
             new == [old EXCEPT !.file_size_bytes = fs.file_size_bytes,
                                !.row_group_count = fs.row_group_count,
                                !.row_count = fs.row_count]
         IN  [db |-> [D EXCEPT !.file_statistics = (@ \ {old}) \cup {new}],
              file_id |-> old.file_id]
    ELSE LET id == D.sqlite_sequence + 1
             new == [file_id |-> id,
                     file_name |-> fs.file_name,
                     file_size_bytes |-> fs.file_size_bytes,
                     row_group_count |-> fs.row_group_count,
                     row_count |-> fs.row_count]
         IN  [db |-> [D EXCEPT !.file_statistics = @ \cup {new}, !.sqlite_sequence = id],
              file_id |-> id]

\* DeleteRowGroups without its WHERE
DeleteAllRowGroups(D, file_id) == [D EXCEPT !.row_group_statistics = {}]

\* DELETE FROM row_group_statistics WHERE file_id = ?
DeleteRowGroups(D, file_id) ==
    [D EXCEPT !.row_group_statistics = { r \in @ : r[COL_FILE_ID] # file_id }]

\* The column list of the INSERT INTO row_group_statistics
InsertColumns(sch) == <<COL_FILE_ID, COL_ROW_GROUP, COL_ROW_COUNT>> \o AllFieldColumns(sch)

\* The three values pushed for one ColumnStatistics (both arms push the same)
StatValues(stats) == << stats.null_count, stats.stats[2], stats.stats[3] >>

RECURSIVE AllStatValues(_)
\* The values pushed for the ColumnStatistics of a row group, in their order
AllStatValues(cs) ==
    IF cs = <<>> THEN <<>> ELSE StatValues(Head(cs)) \o AllStatValues(Tail(cs))

\* The values of one row: file_id, row_group, row_count, then the statistics
InsertValues(file_id, statistics) ==
    << file_id, statistics.row_group, statistics.row_count >>
        \o AllStatValues(statistics.column_statistics)

\* values_panic panics when a row has not one value per column
ValuesPanic(sch, file_id, rgs) ==
    \E i \in 1..Len(rgs) : Len(InsertValues(file_id, rgs[i])) # Len(InsertColumns(sch))

\* A row: the value of every column of the column list
MakeRow(columns, values) ==
    [c \in Range(columns) |-> values[CHOOSE i \in 1..Len(columns) : columns[i] = c]]

NewRows(sch, file_id, rgs) ==
    { MakeRow(InsertColumns(sch), InsertValues(file_id, rgs[i])) : i \in 1..Len(rgs) }

\* PRIMARY KEY (file_id, row_group) refuses the INSERT
PrimaryKeyConflict(D, rows) ==
    \E r \in rows : \E q \in D.row_group_statistics :
        r[COL_FILE_ID] = q[COL_FILE_ID] /\ r[COL_ROW_GROUP] = q[COL_ROW_GROUP]

\* INSERT INTO row_group_statistics (columns) VALUES ..
InsertRowGroups(D, rows) == [D EXCEPT !.row_group_statistics = @ \cup rows]

\* Executors of a statement run on the pool instead of the transaction
UpsertOnPool == "pool"
DeleteOnPool == "pool"

\* The connection each statement of add_row is executed on: the transaction
\* begun by pool.begin() ("transaction"), not the pool ("pool").
UpsertExecutor == "transaction"
DeleteExecutor == "transaction"
InsertExecutor == "transaction"

----------------------------------------------------------------------------
(* State *)

Committed ==
    [file_statistics |-> file_statistics,
     row_group_statistics |-> row_group_statistics,
     sqlite_sequence |-> sqlite_sequence]

\* The rows of the two tables
Rows(D) == [file_statistics |-> D.file_statistics, row_group_statistics |-> D.row_group_statistics]

SetCommitted(D) ==
    /\ file_statistics' = D.file_statistics
    /\ row_group_statistics' = D.row_group_statistics
    /\ sqlite_sequence' = D.sqlite_sequence

NoTx ==
    [pc |-> "idle", file_statistics |-> <<>>, row_group_statistics |-> <<>>,
     file_id |-> 0, work |-> <<>>, before |-> <<>>, footer |-> <<>>]

NoRet ==
    [op |-> "none", outcome |-> "none", arg |-> <<>>, before |-> <<>>,
     store_error |-> "none", rows |-> {}, files |-> <<>>]

\* Whether database rows D already hold exactly what call t is to store: the
\* file's row with t's size and counts, and for its file_id t's rows and no other
AlreadyStored(D, t) ==
    \E r \in D.file_statistics :
        /\ r.file_name = t.file_statistics.file_name
        /\ r.file_size_bytes = t.file_statistics.file_size_bytes
        /\ r.row_group_count = t.file_statistics.row_group_count
        /\ r.row_count = t.file_statistics.row_count
        /\ ~ValuesPanic(schema, r.file_id, t.row_group_statistics)
        /\ { q \in D.row_group_statistics : q[COL_FILE_ID] = r.file_id }
             = NewRows(schema, r.file_id, t.row_group_statistics)

\* What a finished add_file leaves in ret: its outcome, the name of the file,
\* the step it had reached, the file's row before the call (if any), whether
\* the call repeated what was stored and, of a call that returned Ok, what it
\* was given to store and the row groups of the footer it read.
AddFileRet(t, outcome) ==
    [NoRet EXCEPT !.op = "add_file", !.outcome = outcome,
                  !.arg = [file_name |-> t.file_statistics.file_name,
                           pc |-> t.pc,
                           prev |-> { r \in t.before.file_statistics :
                                        r.file_name = t.file_statistics.file_name },
                           same |-> outcome = "ok" /\ AlreadyStored(t.before, t),
                           file_statistics |->
                                IF outcome = "ok" THEN t.file_statistics ELSE <<>>,
                           row_group_statistics |->
                                IF outcome = "ok" THEN t.row_group_statistics ELSE <<>>,
                           footer |-> IF outcome = "ok" THEN t.footer ELSE <<>>]]

Init ==
    /\ schema \in IndexSchemas
    /\ tables = {}
    /\ file_statistics = {}
    /\ row_group_statistics = {}
    /\ sqlite_sequence = 0
    /\ tx = NoTx
    /\ waiting = NoTx
    /\ ingested = {}
    /\ ret = NoRet

----------------------------------------------------------------------------
(* add_file and add_row *)

\* add_file up to the start of the transaction: extraction, initialize (which
\* here runs to its end, or panics in set_column_type after its first
\* statements), pool.begin().
AddFile(path, footer) ==
    /\ tx.pc = "idle"
    /\ LET t == [NoTx EXCEPT !.file_statistics = FileStatisticsInsert(path, footer),
                             !.row_group_statistics = ExtractRowGroups(schema, footer),
                             !.work = Committed,
                             !.before = Rows(Committed),
                             !.footer = footer.row_groups]
       IN  IF InitializePanics(schema)
           THEN /\ ret' = AddFileRet(t, "panic")
                /\ tables' = tables \cup {"file_statistics"}
                /\ UNCHANGED tx
           ELSE /\ ret' = NoRet
                /\ tables' = {"file_statistics", "row_group_statistics"}
                /\ tx' = [t EXCEPT !.pc = "begun"]
    /\ UNCHANGED <<schema, file_statistics, row_group_statistics, sqlite_sequence, waiting, ingested>>

\* add_file whose initialize fails in the store and returns the error:
\* "first" in its first statement, "later" in a later one, when the table
\* file_statistics is already created.
AddFileInitFails(path, init) ==
    /\ tx.pc = "idle"
    /\ ret' = AddFileRet([NoTx EXCEPT !.file_statistics = [file_name |-> FileNameOf(path)],
                                      !.before = Rows(Committed)], "err")
    /\ tables' = IF init = "first" THEN tables ELSE tables \cup {"file_statistics"}
    /\ UNCHANGED <<schema, file_statistics, row_group_statistics, sqlite_sequence, tx, waiting, ingested>>

\* step 1: the upsert of the file_statistics row
TxUpsertFile ==
    /\ tx.pc = "begun"
    /\ LET w == UpsertFile(tx.work, tx.file_statistics)
       IN  /\ tx' = [tx EXCEPT !.pc = "upserted", !.work = w.db, !.file_id = w.file_id]
           /\ SetCommitted(IF UpsertExecutor = "pool"
                           THEN UpsertFile(Committed, tx.file_statistics).db ELSE Committed)
    /\ ret' = NoRet
    /\ UNCHANGED <<schema, tables, waiting, ingested>>

\* step 2: the delete of the file's row-group rows
TxDeleteRowGroups ==
    /\ tx.pc = "upserted"
    /\ tx' = [tx EXCEPT !.pc = "deleted", !.work = DeleteRowGroups(tx.work, tx.file_id)]
    /\ SetCommitted(IF DeleteExecutor = "pool"
                    THEN DeleteRowGroups(Committed, tx.file_id) ELSE Committed)
    /\ ret' = NoRet
    /\ UNCHANGED <<schema, tables, waiting, ingested>>

\* step 3: the insert of the new rows.  A panic of values_panic or an error
\* of the statement drops the transaction, which rolls it back.  For a file
\* without row groups the statement carries no VALUES; here it inserts
\* nothing, and the store refusing it is a TxRollback("err").
TxInsertRowGroups ==
    /\ tx.pc = "deleted"
    /\ LET rows == NewRows(schema, tx.file_id, tx.row_group_statistics)
       IN  IF ValuesPanic(schema, tx.file_id, tx.row_group_statistics)
           THEN /\ tx' = NoTx
                /\ ret' = AddFileRet(tx, "panic")
                /\ SetCommitted(Committed)
           ELSE IF PrimaryKeyConflict(tx.work, rows)
           THEN /\ tx' = NoTx
                /\ ret' = AddFileRet(tx, "err")
                /\ SetCommitted(Committed)
           ELSE /\ tx' = [tx EXCEPT !.pc = "inserted", !.work = InsertRowGroups(tx.work, rows)]
                /\ ret' = NoRet
                /\ SetCommitted(IF InsertExecutor = "pool" /\ ~PrimaryKeyConflict(Committed, rows)
                                THEN InsertRowGroups(Committed, rows) ELSE Committed)
    /\ UNCHANGED <<schema, tables, waiting, ingested>>

\* transaction.commit(): the transaction's view becomes the database
TxCommit ==
    /\ tx.pc = "inserted"
    /\ SetCommitted(tx.work)
    /\ tx' = NoTx
    /\ ret' = AddFileRet(tx, "ok")
    /\ UNCHANGED <<schema, tables, waiting, ingested>>

\* A statement or the commit fails in the store ("err", returned by `?`), or
\* the caller drops the future at an await ("abandoned"): the transaction is
\* dropped without commit and rolled back.
TxRollback(outcome) ==
    /\ tx.pc \in {"begun", "upserted", "deleted", "inserted"}
    /\ tx' = NoTx
    /\ ret' = AddFileRet(tx, outcome)
    /\ UNCHANGED <<schema, tables, file_statistics, row_group_statistics, sqlite_sequence, waiting, ingested>>

----------------------------------------------------------------------------
(* A second add_file, on another SQLiteIndex over the same pool (add_file    *)
(* takes &mut self, so one SQLiteIndex runs one add_file at a time).  Its    *)
(* pool.begin() takes no lock; SQLite has one writer at a time, so its first *)
(* statement, the upsert, runs when no other transaction has written and    *)
(* not committed, or fails when the wait for the lock times out.            *)

\* add_file of the second index up to pool.begin(), while the first has a
\* call in flight (whose initialize did not panic, so neither does this one).
AddFileSecond(path, footer) ==
    /\ tx.pc # "idle"
    /\ waiting.pc = "idle"
    /\ waiting' = [NoTx EXCEPT !.pc = "begun",
                               !.file_statistics = FileStatisticsInsert(path, footer),
                               !.row_group_statistics = ExtractRowGroups(schema, footer),
                               !.footer = footer.row_groups]
    /\ ret' = NoRet
    /\ UNCHANGED <<schema, tables, file_statistics, row_group_statistics, sqlite_sequence, tx, ingested>>

\* step 1 of the second call, once the first has ended: it takes the place
\* of the writer
WaitingUpsertFile ==
    /\ tx.pc = "idle"
    /\ waiting.pc = "begun"
    /\ LET w == UpsertFile(Committed, waiting.file_statistics)
       IN  /\ tx' = [waiting EXCEPT !.pc = "upserted", !.work = w.db, !.file_id = w.file_id,
                                    !.before = Rows(Committed)]
           /\ SetCommitted(IF UpsertExecutor = "pool" THEN w.db ELSE Committed)
    /\ waiting' = NoTx
    /\ ret' = NoRet
    /\ UNCHANGED <<schema, tables, ingested>>

\* The second call ends before it has written: its upsert fails ("err": the
\* database is locked, or another store error) or its future is dropped
\* ("abandoned").
WaitingFails(outcome) ==
    /\ waiting.pc = "begun"
    /\ waiting' = NoTx
    /\ ret' = AddFileRet([waiting EXCEPT !.before = Rows(Committed)], outcome)
    /\ UNCHANGED <<schema, tables, file_statistics, row_group_statistics, sqlite_sequence, tx, ingested>>

----------------------------------------------------------------------------
(* add_file run from its first line to its return with no other call in     *)
(* flight, as one step that also keeps the history of the ingested paths.   *)

\* add_file(path) that the store does not fail: extraction, initialize, the
\* three statements of add_row in their order and the commit; or the panic
\* of initialize or of values_panic, which stores nothing.
AddFileAlone(path, footer) ==
    /\ tx.pc = "idle"
    /\ waiting.pc = "idle"
    /\ LET fs == FileStatisticsInsert(path, footer)
           rgs == ExtractRowGroups(schema, footer)
           t == [NoTx EXCEPT !.file_statistics = fs,
                             !.row_group_statistics = rgs,
                             !.before = Rows(Committed),
                             !.footer = footer.row_groups]
           u == UpsertFile(Committed, fs)
           d == DeleteRowGroups(u.db, u.file_id)
           rows == NewRows(schema, u.file_id, rgs)
       IN  IF InitializePanics(schema)
           THEN /\ ret' = AddFileRet(t, "panic")
                /\ tables' = tables \cup {"file_statistics"}
                /\ UNCHANGED <<file_statistics, row_group_statistics, sqlite_sequence, ingested>>
           ELSE IF ValuesPanic(schema, u.file_id, rgs)
           THEN /\ ret' = AddFileRet([t EXCEPT !.pc = "deleted"], "panic")
                /\ tables' = {"file_statistics", "row_group_statistics"}
                /\ UNCHANGED <<file_statistics, row_group_statistics, sqlite_sequence, ingested>>
           ELSE IF PrimaryKeyConflict(d, rows)
           THEN /\ ret' = AddFileRet([t EXCEPT !.pc = "deleted"], "err")
                /\ tables' = {"file_statistics", "row_group_statistics"}
                /\ UNCHANGED <<file_statistics, row_group_statistics, sqlite_sequence, ingested>>
           ELSE /\ ret' = AddFileRet([t EXCEPT !.pc = "inserted"], "ok")
                /\ tables' = {"file_statistics", "row_group_statistics"}
                /\ SetCommitted(InsertRowGroups(d, rows))
                /\ ingested' = ingested \cup {path}
    /\ UNCHANGED <<schema, tx, waiting>>

----------------------------------------------------------------------------
(* get_files: from the filter to the SQL predicate *)

Lit(v) == <<"lit", v>>
Col(name) == <<"col", name>>
Bin(op, l, r) == <<"bin", op, l, r>>

\* PruningPredicate::try_new(filter, schema).predicate_expr(): the bounds
\* expression over the placeholders {col}_min, {col}_max, {col}_null_count and
\* {col}_row_count ("a = 5" becomes "a_min <= 5 AND a_max >= 5", guarded by
\* a_null_count <> a_row_count); a filter it cannot use becomes the literal true.
PruningPredicate(filter) ==
    CASE filter.kind = "eq" ->
            Bin("and",
                Bin("ne", Col(Concat(filter.col, SUFFIX_NULL_COUNT)),
                          Col(Concat(filter.col, SUFFIX_ROW_COUNT))),
                Bin("and", Bin("le", Col(Concat(filter.col, SUFFIX_MIN)), Lit(filter.val)),
                           Bin("le", Lit(filter.val), Col(Concat(filter.col, SUFFIX_MAX)))))
      [] filter.kind = "is_null" ->
            Bin("gt", Col(Concat(filter.col, SUFFIX_NULL_COUNT)), Lit(0))
      [] OTHER -> Lit(TRUE)

\* column.name().ends_with("_row_count")
EndsWithRowCount(name) ==
    /\ Len(name) > Len(SUFFIX_ROW_COUNT)
    /\ SubSeq(name, Len(name) - Len(SUFFIX_ROW_COUNT) + 1, Len(name)) = SUFFIX_ROW_COUNT

RECURSIVE TrimEndMatchesRowCount(_)
\* column.name().trim_end_matches("_row_count"): the name without its
\* trailing "_row_count"s
TrimEndMatchesRowCount(name) ==
    IF EndsWithRowCount(name)
    THEN TrimEndMatchesRowCount(SubSeq(name, 1, Len(name) - Len(SUFFIX_ROW_COUNT)))
    ELSE name

\* The column the closure of predicate.transform puts for a column
RewriteColumn(name) ==
    IF EndsWithRowCount(name) THEN TrimEndMatchesRowCount(name) ELSE name

RECURSIVE RowCountRewrite(_)
\* predicate.transform(..): every Column node through RewriteColumn
RowCountRewrite(e) ==
    CASE e[1] = "col" -> Col(RewriteColumn(e[2]))
      [] e[1] = "bin" -> Bin(e[2], RowCountRewrite(e[3]), RowCountRewrite(e[4]))
      [] OTHER -> e

SqlOperator(op) ==
    CASE op = "and" -> "AND"
      [] op = "ne" -> "<>"
      [] op = "le" -> "<="
      [] op = "gt" -> ">"

RECURSIVE PhysicalExprToSeaQuery(_)
\* physical_expr_to_sea_query: the SimpleExpr of a bounds expression, node by node
PhysicalExprToSeaQuery(e) ==
    CASE e[1] = "col" -> <<"column", e[2]>>
      [] e[1] = "lit" -> <<"value", e[2]>>
      [] e[1] = "bin" ->
            <<"binary", SqlOperator(e[2]), PhysicalExprToSeaQuery(e[3]), PhysicalExprToSeaQuery(e[4])>>

RECURSIVE SqlColumns(_)
\* the columns a SQL expression names
SqlColumns(q) ==
    CASE q[1] = "column" -> { q[2] }
      [] q[1] = "binary" -> SqlColumns(q[3]) \cup SqlColumns(q[4])
      [] OTHER -> {}

RECURSIVE SqlEval(_, _)
\* the value of a SQL expression on a row of row_group_statistics
SqlEval(q, row) ==
    CASE q[1] = "column" -> row[q[2]]
      [] q[1] = "value" -> q[2]
      [] q[1] = "binary" ->
            LET l == SqlEval(q[3], row)
                r == SqlEval(q[4], row)
            IN  CASE q[2] = "AND" -> l /\ r
                  [] q[2] = "<>" -> l # r
                  [] q[2] = "<=" -> l <= r
                  [] q[2] = ">" -> l > r

\* Whether SQLite refuses the SELECT: a table or a column it names is missing
QueryFails(existing, sch, q) ==
    \/ ~({"file_statistics", "row_group_statistics"} \subseteq existing)
    \/ ~(SqlColumns(q) \subseteq TableColumns(sch))

\* WITH row_groups AS (SELECT file_id, row_group FROM row_group_statistics WHERE q)
StatsQuery(D, q) ==
    { <<x[COL_FILE_ID], x[COL_ROW_GROUP]>> : x \in { r \in D.row_group_statistics : SqlEval(q, r) = TRUE } }

\* SELECT DISTINCT file_name, file_size_bytes, row_group_count, row_group
\* FROM file_statistics JOIN row_groups ON file_statistics.file_id = row_groups.file_id
FilesQuery(D, q) ==
    LET joined == { p \in D.file_statistics \X StatsQuery(D, q) : p[1].file_id = p[2][1] }
    IN  { <<p[1].file_name, p[1].file_size_bytes, p[1].row_group_count, p[2][2]>> : p \in joined }

\* The database the SELECT of get_files reads: it runs on the pool, outside
\* the transaction of add_row, and SQLite shows it what is committed.
QueryView == Committed

\* What becomes of get_files when fetch_all returns an error: .unwrap() panics
QueryErrorOutcome == "panic"

----------------------------------------------------------------------------
(* get_files: the access plans *)

\* ParquetAccessPlan::new_all(n) in the place of new_none(n)
NewAll(n) == [i \in 1..n |-> "Scan"]

\* ParquetAccessPlan::new_none(n): n row groups, all Skip
NewNone(n) == [i \in 1..n |-> "Skip"]

\* one turn of the loop over the rows: file_scans.entry(file_name).or_insert(..),
\* then access_plan.set(row_group, Scan), which panics out of range
PlanRow(acc, row) ==
    LET name == row[1]
        entry == IF name \in DOMAIN acc.files THEN acc.files[name]
                 ELSE [file_size |-> row[2], access_plan |-> NewNone(row[3])]
        at == row[4] + 1
    IN  IF acc.panic \/ at > Len(entry.access_plan)
        THEN [acc EXCEPT !.panic = TRUE]
        ELSE [acc EXCEPT !.files =
                [n \in DOMAIN acc.files \cup {name} |->
                    IF n = name THEN [entry EXCEPT !.access_plan[at] = "Scan"]
                    ELSE acc.files[n]]]

RECURSIVE PlanRows(_, _)
\* the loop over the rows fetch_all returned
PlanRows(acc, rows) ==
    IF rows = {} THEN acc
    ELSE LET row == CHOOSE x \in rows : TRUE
         IN  PlanRows(PlanRow(acc, row), rows \ {row})

NoFiles == [n \in {} |-> 0]

\* get_files(filter, TableSchema), whose SELECT reaches the store
GetFiles(filter) ==
    /\ LET q == PhysicalExprToSeaQuery(RowCountRewrite(PruningPredicate(filter)))
           called == [NoRet EXCEPT !.op = "get_files", !.arg = filter]
       IN  IF QueryFails(tables, schema, q)
           THEN ret' = [called EXCEPT !.outcome = QueryErrorOutcome, !.store_error = "sql"]
           ELSE LET rows == FilesQuery(QueryView, q)
                    plans == PlanRows([panic |-> FALSE, files |-> NoFiles], rows)
                IN  IF plans.panic
                    THEN ret' = [called EXCEPT !.outcome = "panic", !.rows = rows]
                    ELSE ret' = [called EXCEPT !.outcome = "ok", !.rows = rows,
                                               !.files = plans.files]
    /\ UNCHANGED <<schema, tables, file_statistics, row_group_statistics, sqlite_sequence, tx, waiting, ingested>>

\* get_files whose SELECT does not reach the store (no connection)
GetFilesStoreUnavailable ==
    /\ ret' = [NoRet EXCEPT !.op = "get_files", !.outcome = QueryErrorOutcome,
                            !.store_error = "unavailable"]
    /\ UNCHANGED <<schema, tables, file_statistics, row_group_statistics, sqlite_sequence, tx, waiting, ingested>>

Next ==
    \/ \E path \in FilePaths, footer \in Footers : AddFile(path, footer)
    \/ \E path \in FilePaths, init \in {"first", "later"} : AddFileInitFails(path, init)
    \/ TxUpsertFile
    \/ TxDeleteRowGroups
    \/ TxInsertRowGroups
    \/ TxCommit
    \/ \E outcome \in {"err", "abandoned"} : TxRollback(outcome)
    \/ \E filter \in Filters : GetFiles(filter)
    \/ GetFilesStoreUnavailable

Spec == Init /\ [][Next]_vars

\* Two indexes on one pool adding files; no get_files, which writes nothing.
NextTwoWriters ==
    \/ \E path \in FilePaths, footer \in Footers : AddFile(path, footer)
    \/ \E path \in FilePaths, init \in {"first", "later"} : AddFileInitFails(path, init)
    \/ TxUpsertFile
    \/ TxDeleteRowGroups
    \/ TxInsertRowGroups
    \/ TxCommit
    \/ \E outcome \in {"err", "abandoned"} : TxRollback(outcome)
    \/ \E path \in FilePaths, footer \in SecondFooters : AddFileSecond(path, footer)
    \/ WaitingUpsertFile
    \/ \E outcome \in {"err", "abandoned"} : WaitingFails(outcome)

SpecTwoWriters == Init /\ [][NextTwoWriters]_vars

\* add_file calls one after another, each run to its end
NextAlone ==
    \/ \E path \in FilePaths, footer \in Footers : AddFileAlone(path, footer)
    \/ \E path \in FilePaths, init \in {"first", "later"} : AddFileInitFails(path, init)

SpecAlone == Init /\ [][NextAlone]_vars

----------------------------------------------------------------------------
(* Properties *)

\* The fields of the index whose type add_file extracts no statistics for
UnextractedFields == { i \in 1..Len(schema) : schema[i].data_type \notin ExtractedTypes }

IndexedColumns == { schema[i].name : i \in 1..Len(schema) }

\* Whether the statistics in a row of row_group_statistics allow a row of the
\* row group to satisfy the filter (over an indexed column)
MaySatisfy(filter, row) ==
    CASE filter.kind = "eq" ->
            /\ row[Concat(filter.col, SUFFIX_NULL_COUNT)] < row[COL_ROW_COUNT]
            /\ row[Concat(filter.col, SUFFIX_MIN)] <= filter.val
            /\ filter.val <= row[Concat(filter.col, SUFFIX_MAX)]
      [] filter.kind = "is_null" -> row[Concat(filter.col, SUFFIX_NULL_COUNT)] > 0
      [] OTHER -> TRUE

\* The rows of row_group_statistics of file row f in database rows D
RowGroupsOf(D, f) == { r \in D.row_group_statistics : r[COL_FILE_ID] = f.file_id }

\* Row group rg of file name is Scan in the plans of ret
Scanned(name, rg) ==
    /\ name \in DOMAIN ret.files
    /\ rg + 1 <= Len(ret.files[name].access_plan)
    /\ ret.files[name].access_plan[rg + 1] = "Scan"

\* A get_files that found the store available has returned
Queried == ret.op = "get_files" /\ ret.store_error # "unavailable"

\* C1: get_files(P), for P over an indexed column, returns every committed
\* (file, row group) whose statistics may satisfy P as Scan.
C1_Soundness ==
    (Queried /\ ret.arg.col \in IndexedColumns) =>
        \A f \in file_statistics : \A r \in RowGroupsOf(Committed, f) :
            MaySatisfy(ret.arg, r) => (ret.outcome = "ok" /\ Scanned(f.file_name, r[COL_ROW_GROUP]))

\* The database add_row's three statements make of the one it began on
AllThreeSteps(t) ==
    LET D0 == [file_statistics |-> t.before.file_statistics,
               row_group_statistics |-> t.before.row_group_statistics,
               sqlite_sequence |-> sqlite_sequence]
        u == UpsertFile(D0, t.file_statistics)
    IN  InsertRowGroups(DeleteRowGroups(u.db, u.file_id),
                        NewRows(schema, u.file_id, t.row_group_statistics))

\* C2: every step of an add_row in flight leaves the committed rows of both
\* tables as they were when the call began, unless it is the commit that
\* returns Ok, which puts all three statements' effects in place at once; the
\* statements run in the order upsert, delete, insert.
C2_AllOrNothing ==
    [][ /\ (ret'.op = "add_file" /\ ret'.outcome # "ok") =>
             (file_statistics' = file_statistics /\ row_group_statistics' = row_group_statistics)
        /\ tx.pc # "idle" =>
          /\ <<tx.pc, tx'.pc>> \in
                { <<"begun", "upserted">>, <<"upserted", "deleted">>, <<"deleted", "inserted">>,
                  <<"begun", "idle">>, <<"upserted", "idle">>, <<"deleted", "idle">>,
                  <<"inserted", "idle">>,
                  <<"begun", "begun">>, <<"upserted", "upserted">>, <<"deleted", "deleted">>,
                  <<"inserted", "inserted">> }
          /\ IF tx'.pc = "idle" /\ ret'.outcome = "ok"
             THEN /\ tx.pc = "inserted"
                  /\ file_statistics' = AllThreeSteps(tx).file_statistics
                  /\ row_group_statistics' = AllThreeSteps(tx).row_group_statistics
             ELSE /\ file_statistics' = tx.before.file_statistics
                  /\ row_group_statistics' = tx.before.row_group_statistics
      ]_vars

\* C2's case: an add_row of an indexed file with row groups failed or was
\* abandoned after its delete, and the file's rows are still there.
C2_Witness ==
    /\ ret.op = "add_file"
    /\ ret.outcome \in {"err", "abandoned"}
    /\ ret.arg.pc \in {"deleted", "inserted"}
    /\ \E f \in ret.arg.prev : f \in file_statistics /\ RowGroupsOf(Committed, f) # {}

\* C3: a get_files that returns while an add_row of file N is in flight has
\* seen of N exactly what was committed before the add_row began: the row
\* with the old size and row_group_count, and every old row group its filter
\* admits.
C3_ReaderSeesCommitted ==
    (Queried /\ ret.outcome = "ok" /\ tx.pc # "idle") =>
        LET name == tx.file_statistics.file_name
            seen == { r \in ret.rows : r[1] = name }
            old == { f \in tx.before.file_statistics : f.file_name = name }
        IN  seen = UNION { { <<name, f.file_size_bytes, f.row_group_count, r[COL_ROW_GROUP]>> :
                               r \in { x \in RowGroupsOf(tx.before, f) : MaySatisfy(ret.arg, x) } } :
                           f \in old }

\* C3's case: the query ran between the delete and the commit of a
\* re-ingestion that changes the row-group count, and returned the old rows.
C3_Witness ==
    /\ Queried /\ ret.outcome = "ok" /\ ret.arg.kind = "true"
    /\ tx.pc \in {"deleted", "inserted"}
    /\ \E f \in tx.before.file_statistics :
          /\ f.file_name = tx.file_statistics.file_name
          /\ f.row_group_count > tx.file_statistics.row_group_count
          /\ \E r \in ret.rows : r[1] = f.file_name

\* C4: an add_row that commits what is already stored for the file (same
\* size, counts and row-group rows) leaves both tables as they are, file_id
\* included.
C4_Idempotent ==
    [][ (tx.pc = "inserted" /\ tx'.pc = "idle" /\ ret'.outcome = "ok"
            /\ AlreadyStored(Rows(Committed), tx)) =>
          (file_statistics' = file_statistics /\ row_group_statistics' = row_group_statistics)
      ]_vars

\* C4's case: the second of two equal calls, for a file with row groups, returned Ok.
C4_Witness ==
    /\ ret.op = "add_file" /\ ret.outcome = "ok" /\ ret.arg.same
    /\ ret.arg.file_statistics.row_group_count > 0

\* C5: after a committed re-ingestion of an indexed file name, the file has
\* one file_statistics row, with the file_id it had and the new size and
\* counts, and row_group_statistics holds for that file_id exactly the new
\* rows; every stored row belongs to a file and its row_group is below the
\* file's row_group_count.
C5_UpdateSemantics ==
    /\ \A r \in row_group_statistics : \E f \in file_statistics :
          f.file_id = r[COL_FILE_ID] /\ r[COL_ROW_GROUP] < f.row_group_count
    /\ \A f, g \in file_statistics : f.file_name = g.file_name => f = g
    /\ (ret.op = "add_file" /\ ret.outcome = "ok" /\ ret.arg.prev # {}) =>
          \E old \in ret.arg.prev :
             LET new == ret.arg.file_statistics
                 cur == [file_id |-> old.file_id,
                         file_name |-> old.file_name,
                         file_size_bytes |-> new.file_size_bytes,
                         row_group_count |-> new.row_group_count,
                         row_count |-> new.row_count]
             IN  /\ new.file_name = old.file_name
                 /\ { f \in file_statistics : f.file_name = old.file_name } = { cur }
                 /\ RowGroupsOf(Committed, cur)
                      = NewRows(schema, old.file_id, ret.arg.row_group_statistics)
                 /\ { r[COL_ROW_GROUP] : r \in RowGroupsOf(Committed, cur) }
                      = 0..(new.row_group_count - 1)

\* C5's case: a file was re-ingested with a smaller size and fewer row groups.
C5_Witness ==
    /\ ret.op = "add_file" /\ ret.outcome = "ok"
    /\ \E old \in ret.arg.prev :
          /\ old.row_group_count > ret.arg.file_statistics.row_group_count
          /\ old.file_size_bytes > ret.arg.file_statistics.file_size_bytes
          /\ ret.arg.file_statistics.row_group_count > 0

\* C6: get_files with the always-true filter returns, for every committed
\* file, each of its row groups 0..row_group_count-1 once, all Scan, and no
\* other file or row group.
C6_RoundTrip ==
    (Queried /\ ret.arg.kind = "true" /\ ret.store_error = "none") =>
        /\ ret.outcome = "ok"
        /\ DOMAIN ret.files = { f.file_name : f \in { g \in file_statistics : g.row_group_count > 0 } }
        /\ \A f \in file_statistics :
              /\ f.row_group_count > 0 =>
                    ret.files[f.file_name].access_plan = [i \in 1..f.row_group_count |-> "Scan"]
              /\ { r[4] : r \in { x \in ret.rows : x[1] = f.file_name } } = 0..(f.row_group_count - 1)
              /\ Cardinality({ x \in ret.rows : x[1] = f.file_name }) = f.row_group_count

\* C6's case: two files, one with MaxRowGroups row groups, were ingested and queried.
C6_Witness ==
    /\ Queried /\ ret.arg.kind = "true" /\ ret.outcome = "ok"
    /\ Cardinality(DOMAIN ret.files) = 2
    /\ \E f \in file_statistics : f.row_group_count = MaxRowGroups

\* C7: when the index schema has a floating-point field, row_group_statistics
\* has no _null_count/_min/_max column for it and an add_file that the store
\* does not fail returns Ok.
C7_TypeNarrowing ==
    \A i \in { j \in UnextractedFields : schema[j].data_type \in {"Float32", "Float64"} } :
        (ret.op = "add_file" /\ ret.outcome \notin {"err", "abandoned"}) =>
            /\ ret.outcome = "ok"
            /\ Range(FieldColumns(schema[i])) \cap TableColumns(schema) = {}

\* C8: the plans get_files returns have one entry per file name of the
\* result set and no other; the entry's plan has row_group_count places,
\* place i Scan exactly when (file_name, i) is in the result set, and its
\* file_size is the file's file_size_bytes.
C8_PlanAssembly ==
    (ret.op = "get_files" /\ ret.store_error = "none") =>
        /\ ret.outcome = "ok"
        /\ DOMAIN ret.files = { r[1] : r \in ret.rows }
        /\ \A r \in ret.rows :
              LET plan == ret.files[r[1]]
              IN  /\ plan.file_size = r[2]
                  /\ Len(plan.access_plan) = r[3]
                  /\ \A i \in 0..(r[3] - 1) :
                        (plan.access_plan[i + 1] = "Scan") <=> (<<r[1], r[2], r[3], i>> \in ret.rows)
                  /\ \A i \in 0..(r[3] - 1) : plan.access_plan[i + 1] \in {"Scan", "Skip"}

\* C8's case: a plan with a Scan and a Skip, beside a file with no entry.
C8_Witness ==
    /\ ret.op = "get_files" /\ ret.outcome = "ok"
    /\ \E n \in DOMAIN ret.files :
          "Scan" \in Range(ret.files[n].access_plan) /\ "Skip" \in Range(ret.files[n].access_plan)
    /\ \E f \in file_statistics : f.file_name \notin DOMAIN ret.files

\* C9: a get_files whose filter is over a column without statistics columns
\* in the index returns Ok with every row group of every indexed file as Scan.
C9_ConservativeDegradation ==
    (Queried /\ ret.arg.kind # "true" /\ ret.arg.col \notin IndexedColumns
        /\ "row_group_statistics" \in tables) =>
        /\ ret.outcome = "ok"
        /\ \A f \in file_statistics : \A i \in 0..(f.row_group_count - 1) : Scanned(f.file_name, i)

\* C10: a get_files whose SELECT fails in the store returns the error.
C10_StoreErrorReturned ==
    (ret.op = "get_files" /\ ret.store_error # "none") => ret.outcome = "err"

RECURSIVE RowCountRewritten(_, _)
\* Whether expression r is expression e with every column whose name ends
\* with "_row_count" replaced by the column row_count and nothing else changed
RowCountRewritten(e, r) ==
    CASE e[1] = "col" -> r = Col(IF EndsWithRowCount(e[2]) THEN COL_ROW_COUNT ELSE e[2])
      [] e[1] = "bin" ->
            /\ r[1] = "bin" /\ r[2] = e[2]
            /\ RowCountRewritten(e[3], r[3])
            /\ RowCountRewritten(e[4], r[4])
      [] OTHER -> r = e

\* C11: in the predicate get_files hands to physical_expr_to_sea_query, every
\* column of the pruning predicate whose name ends with "_row_count" has
\* become the column row_count and every other column is as it was.
C11_RowCountPlaceholder ==
    Queried => RowCountRewritten(PruningPredicate(ret.arg), RowCountRewrite(PruningPredicate(ret.arg)))

\* C12: an add_file returns Ok only when the footer it read has the
\* statistics of every row group: a footer that lacks the null count, min or
\* max of a row group is not ingested.
C12_MissingStatisticsFail ==
    (ret.op = "add_file" /\ ret.outcome = "ok") =>
        \A i \in 1..Len(ret.arg.footer) : ret.arg.footer[i].has_statistics

\* The integer types of width up to 64 bits
IntegerTypes == { "Int8", "Int16", "Int32", "Int64", "UInt8", "UInt16", "UInt32", "UInt64" }

\* C13: with an index schema of integer fields only, an add_file that the
\* store does not fail returns Ok, and for every row group with statistics it
\* has extracted, for every field, one Int(min, max) with the footer's min
\* and max.
C13_IntegerWidening ==
    (/\ ret.op = "add_file" /\ ret.outcome \notin {"err", "abandoned"}
     /\ \A i \in 1..Len(schema) : schema[i].data_type \in IntegerTypes) =>
        /\ ret.outcome = "ok"
        /\ \A k \in 1..Len(ret.arg.footer) :
              ret.arg.footer[k].has_statistics =>
                 LET cs == ret.arg.row_group_statistics[k].column_statistics
                 IN  /\ Len(cs) = Len(schema)
                     /\ \A i \in 1..Len(cs) :
                           cs[i].stats = <<"Int", ret.arg.footer[k].min, ret.arg.footer[k].max>>

\* The rows of database rows D that belong to the files whose name is not N
OtherFiles(D, N) ==
    [file_statistics |-> { f \in D.file_statistics : f.file_name # N },
     row_group_statistics |->
        { r \in D.row_group_statistics :
            \E f \in D.file_statistics : f.file_name # N /\ f.file_id = r[COL_FILE_ID] }]

\* C14: with two add_row calls in flight, every step of the call that is
\* writing file name N (a statement, the commit, a failure) leaves the rows
\* of every other file name in both tables as they were, and every step that
\* is not of the writing call leaves all rows as they were.
C14_CrossFileFrame ==
    [][ LET N == tx.file_statistics.file_name
            after == [file_statistics |-> file_statistics',
                      row_group_statistics |-> row_group_statistics']
        IN  IF tx.pc # "idle" /\ tx' # tx
            THEN OtherFiles(after, N) = OtherFiles(Rows(Committed), N)
            ELSE IF tx.pc = "idle" /\ tx'.pc = "upserted"
            THEN OtherFiles(after, tx'.file_statistics.file_name)
                    = OtherFiles(Rows(Committed), tx'.file_statistics.file_name)
            ELSE after = Rows(Committed)
      ]_vars

\* C14's case: an add_row committed while a second one, of another file name
\* that has rows stored, was in flight.
C14_Witness ==
    /\ ret.op = "add_file" /\ ret.outcome = "ok"
    /\ ret.arg.file_statistics.row_group_count > 0
    /\ waiting.pc = "begun"
    /\ waiting.file_statistics.file_name # ret.arg.file_name
    /\ \E f \in file_statistics :
          f.file_name = waiting.file_statistics.file_name /\ RowGroupsOf(Committed, f) # {}

\* The final component of a path
LastComponent(path) == path[Len(path)]

\* C15: file_statistics has one row for each distinct final path component
\* among the ingested paths and no other row, and after an add_file that
\* returned Ok the row of its file's final component holds that call's size
\* and counts and row_group_statistics holds for it that call's rows only.
C15_NaturalKey ==
    /\ { f.file_name : f \in file_statistics } = { LastComponent(p) : p \in ingested }
    /\ Cardinality(file_statistics) = Cardinality({ LastComponent(p) : p \in ingested })
    /\ (ret.op = "add_file" /\ ret.outcome = "ok") =>
          \E f \in file_statistics :
             /\ f.file_name = ret.arg.file_name
             /\ f.file_size_bytes = ret.arg.file_statistics.file_size_bytes
             /\ f.row_group_count = ret.arg.file_statistics.row_group_count
             /\ f.row_count = ret.arg.file_statistics.row_count
             /\ RowGroupsOf(Committed, f)
                   = NewRows(schema, f.file_id, ret.arg.row_group_statistics)

\* C15's case: d1/x.parquet and d2/x.parquet have both been ingested, the
\* later of the two over a stored row of another size and row-group count,
\* beside y.parquet.
C15_Witness ==
    /\ ingested = FilePaths
    /\ ret.op = "add_file" /\ ret.outcome = "ok"
    /\ ret.arg.file_name = "x.parquet"
    /\ \E old \in ret.arg.prev :
          /\ old.file_size_bytes # ret.arg.file_statistics.file_size_bytes
          /\ old.row_group_count > ret.arg.file_statistics.row_group_count
          /\ ret.arg.file_statistics.row_group_count > 0
    /\ Cardinality(file_statistics) = 2

====
